---- MODULE Spec2Model ----
(***************************************************************************)
(* Model of thalesfsp/concurrentloop: the bounded ordered Map engine, the  *)
(* keyed MapM engine (src/map.go) and the Execute engine (src/execute.go), *)
(* with RemoveZeroValues, the options resolution (src/options.go) and the  *)
(* channel-based Map/MapCh of src/map.go:421-528 under their own           *)
(* specifications.                                                         *)
(*                                                                         *)
(* One call is modelled at a time.  The calling goroutine ("main") walks   *)
(* the dispatch loop; every dispatched goroutine ("worker") is identified  *)
(* by the 1-based position of its item in the iteration order.             *)
(* The jitter options are either left at their defaults (no delay) or set *)
(* to a range whose minimum exceeds its maximum, which randomness.New      *)
(* rejects; a valid jitter only delays the loop (map.go:134-136).          *)
(* semaphore.Weighted is modelled by its contract: Acquire blocks until    *)
(* weight is free or ctx is done.                                          *)
(***************************************************************************)
EXTENDS Integers, Sequences, FiniteSets, TLC

(***************************************************************************)
(* Bounds of the model.                                                    *)
(***************************************************************************)
MaxN == 2          \* longest input (items / itemsMap / fns)
MaxBatch == 2      \* largest o.BatchSize
MaxLimit == 1      \* largest o.Limit
MaxLen == 4        \* longest sequence handed to RemoveZeroValues alone
MaxDelay == 1      \* largest jitter bound in the options resolution

(***************************************************************************)
(* Values.  Results have the item type (cF4/cF5 of map_test.go return the  *)
(* item itself).  Zero is the zero value of the result type ("" / 0).      *)
(***************************************************************************)
Zero == 0
FailItem == 2      \* the item on which the transformation fails ("c" in cF4)
ItemVals == {Zero, 1, FailItem}

\* Sequences over S of length 0..n.
SeqsUpTo(S, n) == UNION {[1..k -> S] : k \in 0..n}

VARIABLES
    mode,           \* "Map" | "MapM" | "Execute": which engine is called
    items,          \* input, in iteration order (MapM: order chosen by range)
    o,              \* resolved Option
    fired,          \* ctx.Err() != nil
    pc,             \* position of the calling goroutine
    i,              \* loop index of the calling goroutine (1-based)
    cur,            \* semaphore.Weighted: weight currently held
    wg,             \* sync.WaitGroup counter
    resultTracker,  \* atomic counter, starts at 1
    results,        \* the shared result slice
    errs,           \* the shared error slice
    errMutex,       \* 0 = unlocked, w = locked by worker w
    wpc,            \* position of each worker
    calls,          \* number of invocations of f per position
    ctxDoneAtCall,  \* the token had fired before the call
    blockedAtFire,  \* index the loop was acquiring the full gate for, with
                    \* every admitted unit inside f, when the token fired (else 0)
    lateStarts,     \* number of units dispatched after the token fired
    limitStarts,    \* number of units dispatched after the limit was reached
    retResults,     \* result sequence handed to the caller
    retErrs,        \* error set handed to the caller
    fns,            \* Execute: the operations, each by what it returns
    epc,            \* Execute: position of each operation's goroutine
    nrecv,          \* Execute: outcomes received from resultsCh so far
    chClosed,       \* Execute: resultsCh has been closed
    errsRead,       \* the slice the loop has loaded for its unlocked append
    retNil,         \* the result sequence handed to the caller is nil
    retView,        \* what the returned slice shows now (it shares the
                    \* backing array of results)
    outcome,        \* per unit: the outcomes it has published, in order
    opts,           \* options resolution: the overrides still to apply
    oTrace          \* options resolution: the configurations gone through

\* The history variables, which no step of the program reads.
hist == <<ctxDoneAtCall, blockedAtFire, lateStarts, limitStarts>>

\* The variables of an Execute call.
exec == <<fns, epc, nrecv, chClosed>>

\* The loop's local copy, the nil flag of the return, and the records kept
\* for the properties.
aux == <<errsRead, retNil, retView, outcome, opts, oTrace>>

vars == <<mode, items, o, fired, pc, i, cur, wg, resultTracker, results, errs,
          errMutex, wpc, calls, hist, retResults, retErrs, exec, aux>>

N == Len(items)
Workers == 1..N

(***************************************************************************)
(* The transformation f: cF4 of map_test.go, fails on one item and returns *)
(* the item otherwise.  MapM's f receives the key too and ignores it.      *)
(***************************************************************************)
F(x) == IF x = FailItem THEN [out |-> Zero, err |-> TRUE]
                        ELSE [out |-> x, err |-> FALSE]

\* What the error messages print: items[i] in Map, the key in MapM.  The key
\* of the entry at position k of the iteration order is k.
NameOf(k) == IF mode = "MapM" THEN k ELSE items[k]

(***************************************************************************)
(* RemoveZeroValues: the in-place deletion loop of map.go:44-55.           *)
(***************************************************************************)
isZeroOfUnderlyingType(x) == x = Zero

RemoveAt(s, k) == SubSeq(s, 1, k - 1) \o SubSeq(s, k + 1, Len(s))

\* for i := 0; i < len(results); i++ { if zero { delete results[i]; i-- } }
RECURSIVE RemoveLoop(_, _)
RemoveLoop(s, k) ==
    IF k > Len(s) THEN s
    ELSE IF isZeroOfUnderlyingType(s[k]) THEN RemoveLoop(RemoveAt(s, k), k)
    ELSE RemoveLoop(s, k + 1)

RemoveZeroValues(removeZeroValues, s) ==
    IF removeZeroValues THEN RemoveLoop(s, 1) ELSE s

\* A result type that is an interface type (T = any, error, ...) has the nil
\* interface value among its values; for it reflect.TypeOf(x) is nil and
\* reflect.Zero(nil) panics, so isZeroOfUnderlyingType does not return.
NilValue == 3
ResultVals == ItemVals \cup {NilValue}
TypeOfIsNil(x) == x = NilValue

\* The call panics: the loop reaches an entry that is the nil interface value
\* (every entry is examined, in order, until then).
RemovePanics(removeZeroValues, s) ==
    removeZeroValues /\ \E k \in 1..Len(s) : TypeOfIsNil(s[k])

(***************************************************************************)
(* Initial state: a call of Map or MapM.                                   *)
(***************************************************************************)
\* Mutant: Map starts from an empty result slice, as MapM does.
InitResults_Empty(m, its) == <<>>

\* results := make([]Result, len(items)) in Map, []Result{} in MapM.
InitResults(m, its) == IF m = "Map" THEN [k \in 1..Len(its) |-> Zero] ELSE <<>>

\* type Option struct {...}; the widths a caller may pass include n <= 0.
\* The delay is the default one or WithRandomDelayTime(1, 0, 0).
Options == [BatchSize : (-1)..MaxBatch, Limit : 0..MaxLimit,
            RandomDelayTimeDuration : {0}, RandomDelayTimeMax : {0},
            RandomDelayTimeMin : {0, 1}, RemoveZeroValues : BOOLEAN]

\* No options resolution is in progress (the specifications of the calls).
Resolved == opts = <<>> /\ oTrace = <<>>

Init ==
    /\ mode \in {"Map", "MapM"}
    /\ items \in SeqsUpTo(ItemVals, MaxN)
    /\ o \in Options
    /\ mode = "MapM" => o.RandomDelayTimeMin = 0
    /\ fired \in BOOLEAN
    /\ pc = "setup"
    /\ i = 1
    /\ cur = 0
    /\ wg = 0
    /\ resultTracker = 1
    /\ results = InitResults(mode, items)
    /\ errs = <<>>
    /\ errMutex = 0
    /\ wpc = [w \in 1..Len(items) |-> "idle"]
    /\ calls = [w \in 1..Len(items) |-> 0]
    /\ ctxDoneAtCall = fired
    /\ blockedAtFire = 0
    /\ lateStarts = 0
    /\ limitStarts = 0
    /\ retResults = <<>>
    /\ retErrs = <<>>
    /\ fns = <<>>
    /\ epc = <<>>
    /\ nrecv = 0
    /\ chClosed = FALSE
    /\ errsRead = <<>>
    /\ retNil = FALSE
    /\ retView = <<>>
    /\ outcome = [w \in 1..Len(items) |-> <<>>]
    /\ Resolved

(***************************************************************************)
(* The cancellation token fires (deadline or cancel), at any moment.       *)
(***************************************************************************)
\* The loop waits in sem.Acquire on a full gate whose holders all run f.
BlockedOnRunning ==
    /\ pc = "acq"
    /\ cur >= o.BatchSize
    /\ cur > 0
    /\ \A w \in Workers : wpc[w] \in {"idle", "inF", "fin"}

Fire ==
    /\ ~fired
    /\ pc # "done"
    /\ fired' = TRUE
    /\ blockedAtFire' = IF BlockedOnRunning THEN i ELSE 0
    /\ UNCHANGED <<mode, items, o, pc, i, cur, wg, resultTracker, results,
                   errs, errMutex, wpc, calls, ctxDoneAtCall, lateStarts, limitStarts,
                   retResults, retErrs, exec, aux>>

(***************************************************************************)
(* The calling goroutine.                                                  *)
(***************************************************************************)
\* if o.RandomDelayTimeMin != 0 || o.RandomDelayTimeMax != 0 &&
\*    o.RandomDelayTimeMin < o.RandomDelayTimeMax && o.RandomDelayTimeDuration != 0
JitterConfigured ==
    \/ o.RandomDelayTimeMin # 0
    \/ /\ o.RandomDelayTimeMax # 0
       /\ o.RandomDelayTimeMin < o.RandomDelayTimeMax
       /\ o.RandomDelayTimeDuration # 0

\* r, err := randomness.New(min, max, 3, false); err != nil for a range
\* whose minimum exceeds its maximum.
JitterFails == o.RandomDelayTimeMin > o.RandomDelayTimeMax

\* The jitter preparation of this call returns an error.
JitterFailed == mode = "Map" /\ JitterConfigured /\ JitterFails

\* The preparation of the jitter delay (Map only; MapM has none):
\* return nil, []error{err} when it fails.
Setup ==
    /\ pc = "setup"
    /\ IF JitterFailed
       THEN /\ retNil' = TRUE
            /\ retResults' = <<>>
            /\ retView' = <<>>
            /\ retErrs' = <<[kind |-> "jitter", name |-> Zero]>>
            /\ pc' = "done"
       ELSE /\ pc' = "loop"
            /\ UNCHANGED <<retNil, retResults, retView, retErrs>>
    /\ UNCHANGED <<mode, items, o, fired, i, cur, wg, resultTracker, results,
                   errs, errMutex, wpc, calls, hist, exec, errsRead, outcome,
                   opts, oTrace>>

\* for i := range items { if o.Limit > 0 && resultTracker > Limit { break }
LimitReached == o.Limit > 0 /\ resultTracker > o.Limit

\* Mutant: the loop does not look at the limit.
LoopExit_NoLimit == i > N

\* Mutant: the loop also stops at the first recorded failure.
LoopExit_FailFast == i > N \/ LimitReached \/ Len(errs) > 0

\* The range is exhausted, or the limit check breaks out of the loop.
LoopExit == i > N \/ LimitReached

LoopHead ==
    /\ pc = "loop"
    /\ pc' = IF LoopExit THEN "wait" ELSE "ctx"
    /\ UNCHANGED <<mode, items, o, fired, i, cur, wg, resultTracker, results,
                   errs, errMutex, wpc, calls, hist, retResults, retErrs, exec, aux>>

\* Mutant: the pre-dispatch check of the token is missing.
CtxErr_Unchecked == FALSE

\* ctx.Err() != nil
CtxErr == fired

\* if ctx.Err() != nil { ... }
CtxCheck ==
    /\ pc = "ctx"
    /\ pc' = IF CtxErr THEN "errc" ELSE "acq"
    /\ UNCHANGED <<mode, items, o, fired, i, cur, wg, resultTracker, results,
                   errs, errMutex, wpc, calls, hist, retResults, retErrs, exec, aux>>

\* Mutant: the gate is sized one too large.
Capacity_OffByOne == o.BatchSize + 1

\* sem := semaphore.NewWeighted(int64(o.BatchSize))
Capacity == o.BatchSize

\* sem.Acquire(ctx, 1) returns nil: a unit of weight is free.  With the token
\* fired and weight free the call may return either way (the select between
\* ctx.Done() and the wake-up is not ordered).
AcquireOk ==
    /\ pc = "acq"
    /\ cur < Capacity
    /\ cur' = cur + 1
    /\ pc' = "go"
    /\ UNCHANGED <<mode, items, o, fired, i, wg, resultTracker, results,
                   errs, errMutex, wpc, calls, hist, retResults, retErrs, exec, aux>>

\* sem.Acquire(ctx, 1) returns ctx.Err() and leaves the semaphore unchanged.
AcquireFail ==
    /\ pc = "acq"
    /\ fired
    /\ pc' = "errt"
    /\ UNCHANGED <<mode, items, o, fired, i, cur, wg, resultTracker, results,
                   errs, errMutex, wpc, calls, hist, retResults, retErrs, exec, aux>>

\* wg.Add(1); go func(i int) {...}(i): the unit starts and calls f.
Dispatch ==
    /\ pc = "go"
    /\ wg' = wg + 1
    /\ wpc' = [wpc EXCEPT ![i] = "inF"]
    /\ calls' = [calls EXCEPT ![i] = @ + 1]
    /\ i' = i + 1
    /\ pc' = "loop"
    /\ lateStarts' = IF fired THEN lateStarts + 1 ELSE lateStarts
    /\ limitStarts' = IF LimitReached THEN limitStarts + 1 ELSE limitStarts
    /\ UNCHANGED <<mode, items, o, fired, cur, resultTracker, results, errs,
                   errMutex, ctxDoneAtCall, blockedAtFire, retResults, retErrs, exec, aux>>

\* errs = append(errs, customerror.New(`context ... before mapping "%v"`))
\* on the two cancellation paths; the error mutex is not taken.
CancelErr(kind) == [kind |-> kind, name |-> NameOf(i)]

\* The append is not atomic: it loads the slice, then stores the extended
\* one.  Between the two a worker may append under the mutex.
LoadErrs ==
    /\ pc \in {"errc", "errt"}
    /\ errsRead' = errs
    /\ pc' = IF pc = "errc" THEN "appc" ELSE "appt"
    /\ UNCHANGED <<mode, items, o, fired, i, cur, wg, resultTracker, results,
                   errs, errMutex, wpc, calls, hist, retResults, retErrs, exec,
                   retNil, retView, outcome, opts, oTrace>>

AppendCancelErr ==
    /\ pc \in {"appc", "appt"}
    /\ errs' = Append(errsRead, CancelErr(IF pc = "appc" THEN "errored" ELSE "timeout"))
    /\ pc' = "retc"
    /\ UNCHANGED <<mode, items, o, fired, i, cur, wg, resultTracker, results,
                   errMutex, wpc, calls, hist, retResults, retErrs, exec, aux>>

\* return RemoveZeroValues(o.RemoveZeroValues, results), errs
\* on the two cancellation paths: no wg.Wait().
ReturnEarly ==
    /\ pc = "retc"
    /\ retResults' = RemoveZeroValues(o.RemoveZeroValues, results)
    /\ retView' = retResults'
    /\ retErrs' = errs
    /\ pc' = "done"
    /\ UNCHANGED <<mode, items, o, fired, i, cur, wg, resultTracker, results,
                   errs, errMutex, wpc, calls, hist, exec, errsRead, retNil,
                   outcome, opts, oTrace>>

\* wg.Wait(); return RemoveZeroValues(o.RemoveZeroValues, results), errs
WaitReturn ==
    /\ pc = "wait"
    /\ wg = 0
    /\ retResults' = RemoveZeroValues(o.RemoveZeroValues, results)
    /\ retView' = retResults'
    /\ retErrs' = errs
    /\ pc' = "done"
    /\ UNCHANGED <<mode, items, o, fired, i, cur, wg, resultTracker, results,
                   errs, errMutex, wpc, calls, hist, exec, errsRead, retNil,
                   outcome, opts, oTrace>>

(***************************************************************************)
(* A worker: the goroutine dispatched for position w.                      *)
(***************************************************************************)
\* Mutant: the error returned by f is ignored.
Failed_Ignored(w) == FALSE

\* err != nil after res, err := f(ctx, items[i])
Failed(w) == F(items[w]).err

\* Mutant: every goroutine shares one slot instead of its own index.
SlotOf_Shared(w) == 1

\* The index bound to the goroutine: go func(i int) {...}(i)
SlotOf(w) == w

\* The index guard of Map: len(results) <= i (0-based i).
IndexOutOfRange(w) == mode = "Map" /\ Len(results) <= SlotOf(w) - 1

AfterLimit == IF mode = "Map" THEN "wr" ELSE "lockR"

\* res, err := f(ctx, items[i]) returns.
ReturnF(w) ==
    /\ wpc[w] = "inF"
    /\ wpc' = [wpc EXCEPT ![w] =
                 IF Failed(w) \/ IndexOutOfRange(w) THEN "lockE"
                 ELSE IF o.Limit > 0 THEN "lim"
                 ELSE AfterLimit]
    /\ UNCHANGED <<mode, items, o, fired, pc, i, cur, wg, resultTracker,
                   results, errs, errMutex, calls, hist, retResults,
                   retErrs, exec, aux>>

\* errMutex.Lock() on a failure path.
LockErr(w) ==
    /\ wpc[w] = "lockE"
    /\ errMutex = 0
    /\ errMutex' = w
    /\ wpc' = [wpc EXCEPT ![w] = "csE"]
    /\ UNCHANGED <<mode, items, o, fired, pc, i, cur, wg, resultTracker,
                   results, errs, calls, hist, retResults, retErrs, exec, aux>>

\* Mutant: the failure branch lacks its return and falls through.
AfterErr_FallThrough == AfterLimit

\* return after the append of the failure: the deferred calls run next.
AfterErr == "dfr"

\* errs = append(errs, "failed to map ..."); return -> deferred Unlock.
WorkerErr(w) ==
    [kind |-> IF Failed(w) THEN "failed" ELSE "index", name |-> NameOf(w)]

AppendErr(w) ==
    /\ wpc[w] = "csE"
    /\ errs' = Append(errs, WorkerErr(w))
    /\ errMutex' = 0
    /\ wpc' = [wpc EXCEPT ![w] = AfterErr]
    /\ outcome' = [outcome EXCEPT ![w] = Append(@, "failure")]
    /\ UNCHANGED <<mode, items, o, fired, pc, i, cur, wg, resultTracker,
                   results, calls, hist, retResults, retErrs, exec, errsRead,
                   retNil, retView, opts, oTrace>>

\* Mutant: the return taken at the limit skips the deferred calls.
OnLimitReturn_Leak == "fin"

\* return at the limit: the deferred calls run next.
OnLimitReturn == "dfr"

\* if o.Limit > 0 { if atomic.LoadUint64(&resultTracker) > Limit { return } }
LimitCheck(w) ==
    /\ wpc[w] = "lim"
    /\ wpc' = [wpc EXCEPT ![w] = IF LimitReached THEN OnLimitReturn ELSE AfterLimit]
    /\ UNCHANGED <<mode, items, o, fired, pc, i, cur, wg, resultTracker,
                   results, errs, errMutex, calls, hist, retResults,
                   retErrs, exec, aux>>

\* RemoveZeroValues compacts in place and hands back a slice of the same
\* backing array: once Map has returned, slot k of results is element k of
\* the returned slice when k is within its length.
Aliased(k) == pc = "done" /\ k <= Len(retView)

\* Map: results[i] = res; atomic.AddUint64(&resultTracker, 1)
WriteResult(w) ==
    /\ wpc[w] = "wr"
    /\ results' = [results EXCEPT ![SlotOf(w)] = F(items[w]).out]
    /\ resultTracker' = resultTracker + 1
    /\ wpc' = [wpc EXCEPT ![w] = "dfr"]
    /\ outcome' = [outcome EXCEPT ![w] = Append(@, "result")]
    /\ retView' = IF Aliased(SlotOf(w))
                  THEN [retView EXCEPT ![SlotOf(w)] = F(items[w]).out]
                  ELSE retView
    /\ UNCHANGED <<mode, items, o, fired, pc, i, cur, wg, errs, errMutex,
                   calls, hist, retResults, retErrs, exec, errsRead, retNil,
                   opts, oTrace>>

\* MapM: errMutex.Lock() before the append of the result.
LockRes(w) ==
    /\ wpc[w] = "lockR"
    /\ errMutex = 0
    /\ errMutex' = w
    /\ wpc' = [wpc EXCEPT ![w] = "csR"]
    /\ UNCHANGED <<mode, items, o, fired, pc, i, cur, wg, resultTracker,
                   results, errs, calls, hist, retResults, retErrs, exec, aux>>

\* Mutant: the append writes over the last entry, as a lost update would.
Appended_Overwrite(s, x) ==
    IF s = <<>> THEN <<x>> ELSE [s EXCEPT ![Len(s)] = x]

\* append(results, res)
Appended(s, x) == Append(s, x)

\* MapM: results = append(results, res); AddUint64; deferred Unlock.
AppendRes(w) ==
    /\ wpc[w] = "csR"
    /\ results' = Appended(results, F(items[w]).out)
    /\ resultTracker' = resultTracker + 1
    /\ errMutex' = 0
    /\ wpc' = [wpc EXCEPT ![w] = "dfr"]
    /\ outcome' = [outcome EXCEPT ![w] = Append(@, "result")]
    /\ UNCHANGED <<mode, items, o, fired, pc, i, cur, wg, errs, calls,
                   hist, retResults, retErrs, exec, errsRead, retNil, retView,
                   opts, oTrace>>

\* deferred wg.Done()
Done(w) ==
    /\ wpc[w] = "dfr"
    /\ wg' = wg - 1
    /\ wpc' = [wpc EXCEPT ![w] = "rel"]
    /\ UNCHANGED <<mode, items, o, fired, pc, i, cur, resultTracker, results,
                   errs, errMutex, calls, hist, retResults, retErrs, exec, aux>>

\* deferred sem.Release(1)
Release(w) ==
    /\ wpc[w] = "rel"
    /\ cur' = cur - 1
    /\ wpc' = [wpc EXCEPT ![w] = "fin"]
    /\ UNCHANGED <<mode, items, o, fired, pc, i, wg, resultTracker, results,
                   errs, errMutex, calls, hist, retResults, retErrs, exec, aux>>

\* A step of the call itself: of the calling goroutine or of a worker.
CallStep ==
    \/ Setup
    \/ LoopHead
    \/ CtxCheck
    \/ AcquireOk
    \/ AcquireFail
    \/ Dispatch
    \/ LoadErrs
    \/ AppendCancelErr
    \/ ReturnEarly
    \/ WaitReturn
    \/ \E w \in Workers : ReturnF(w)
    \/ \E w \in Workers : LockErr(w)
    \/ \E w \in Workers : AppendErr(w)
    \/ \E w \in Workers : LimitCheck(w)
    \/ \E w \in Workers : WriteResult(w)
    \/ \E w \in Workers : LockRes(w)
    \/ \E w \in Workers : AppendRes(w)
    \/ \E w \in Workers : Done(w)
    \/ \E w \in Workers : Release(w)

Next == Fire \/ CallStep

Spec == Init /\ [][Next]_vars

(***************************************************************************)
(* A Map call whose token never fires: the steps that do not need the      *)
(* token, each goroutine that can take a step eventually being scheduled.  *)
(***************************************************************************)
InitQuiet == Init /\ mode = "Map" /\ ~fired

QuietStep ==
    \/ Setup
    \/ LoopHead
    \/ CtxCheck
    \/ AcquireOk
    \/ Dispatch
    \/ WaitReturn
    \/ \E w \in Workers : ReturnF(w)
    \/ \E w \in Workers : LockErr(w)
    \/ \E w \in Workers : AppendErr(w)
    \/ \E w \in Workers : LimitCheck(w)
    \/ \E w \in Workers : WriteResult(w)
    \/ \E w \in Workers : Done(w)
    \/ \E w \in Workers : Release(w)

SpecQuiet == InitQuiet /\ [][QuietStep]_vars /\ WF_vars(QuietStep)

(***************************************************************************)
(* Execute and ExecuteCh (src/execute.go).  An operation is modelled by    *)
(* the pair (Output, Error) it returns; resultsCh is unbuffered, so a send *)
(* and the receive that takes it are one step.                             *)
(***************************************************************************)
Nil == "nil"
FnOuts == {1, 3}
FnErrs == {Nil, "custom error", "other error"}
FnKinds == [out : FnOuts, err : FnErrs]
Ops == 1..Len(fns)

InitExecute ==
    /\ mode = "Execute"
    /\ fns \in SeqsUpTo(FnKinds, MaxN)
    /\ epc = [g \in 1..Len(fns) |-> "idle"]
    /\ nrecv = 0
    /\ chClosed = FALSE
    /\ pc = "launch"
    /\ i = 1
    /\ results = <<>>
    /\ errs = <<>>
    /\ retResults = <<>>
    /\ retErrs = <<>>
    /\ items = <<>>
    /\ o = [BatchSize |-> 0, Limit |-> 0, RandomDelayTimeDuration |-> 0,
            RandomDelayTimeMax |-> 0, RandomDelayTimeMin |-> 0,
            RemoveZeroValues |-> FALSE]
    /\ fired = FALSE
    /\ cur = 0
    /\ wg = 0
    /\ resultTracker = 1
    /\ errMutex = 0
    /\ wpc = <<>>
    /\ calls = <<>>
    /\ ctxDoneAtCall = FALSE
    /\ blockedAtFire = 0
    /\ lateStarts = 0
    /\ limitStarts = 0
    /\ errsRead = <<>>
    /\ retNil = FALSE
    /\ retView = <<>>
    /\ outcome = <<>>
    /\ Resolved

mapState == <<items, o, fired, cur, wg, resultTracker, errMutex, wpc, calls,
              hist, aux>>

\* Mutant: only the first operation is launched before the receive loop.
MoreToLaunch_One == i <= 1

\* for _, fn := range fns: the range has a next operation.
MoreToLaunch == i <= Len(fns)

\* ExecuteCh: for _, fn := range fns { go func(fn) {...}(fn) }; return resultsCh
Launch ==
    /\ pc = "launch"
    /\ IF MoreToLaunch
       THEN /\ epc' = [epc EXCEPT ![i] = "run"]
            /\ i' = i + 1
            /\ pc' = pc
       ELSE /\ pc' = "recv"
            /\ UNCHANGED <<epc, i>>
    /\ UNCHANGED <<mode, fns, nrecv, chClosed, results, errs, retResults,
                   retErrs, mapState>>

\* result, err := fn(ctx) returns; the goroutine reaches its send.
ReturnFn(g) ==
    /\ epc[g] = "run"
    /\ epc' = [epc EXCEPT ![g] = "send"]
    /\ UNCHANGED <<mode, fns, nrecv, chClosed, pc, i, results, errs,
                   retResults, retErrs, mapState>>

\* resultsCh <- ResultCh[T]{Output: result, Error: err}
Outcome(g) == [Output |-> fns[g].out, Error |-> fns[g].err]

\* Mutant: the receiver never takes the failure branch.
IsError_Never(result) == FALSE

\* if result.Error != nil
IsError(result) == result.Error # Nil

\* Mutant: the receive loop stops one outcome short.
Wanted_OneShort == Len(fns) - 1

\* for range fns { result := <-resultsCh ... }: one receive per operation.
Wanted == Len(fns)

\* result := <-resultsCh, taking the send of goroutine g, and the append.
Receive(g) ==
    /\ pc = "recv"
    /\ nrecv < Wanted
    /\ ~chClosed
    /\ epc[g] = "send"
    /\ epc' = [epc EXCEPT ![g] = "fin"]
    /\ nrecv' = nrecv + 1
    /\ IF IsError(Outcome(g))
       THEN /\ errs' = Append(errs, Outcome(g).Error)
            /\ UNCHANGED results
       ELSE /\ results' = Append(results, Outcome(g).Output)
            /\ UNCHANGED errs
    /\ UNCHANGED <<mode, fns, chClosed, pc, i, retResults, retErrs, mapState>>

\* return results, errs; deferred close(resultsCh)
ExecuteReturn ==
    /\ pc = "recv"
    /\ nrecv = Wanted
    /\ retResults' = results
    /\ retErrs' = errs
    /\ chClosed' = TRUE
    /\ pc' = "done"
    /\ UNCHANGED <<mode, fns, epc, nrecv, i, results, errs, mapState>>

NextExecute ==
    \/ Launch
    \/ \E g \in Ops : ReturnFn(g)
    \/ \E g \in Ops : Receive(g)
    \/ ExecuteReturn

SpecExecute == InitExecute /\ [][NextExecute]_vars

(***************************************************************************)
(* RemoveZeroValues called on its own (src/map.go:44-55), on any sequence  *)
(* of results.                                                             *)
(***************************************************************************)
\* No Map, MapM or Execute call is in progress.
NoCall ==
    /\ items = <<>>
    /\ fired = FALSE
    /\ i = 1
    /\ cur = 0
    /\ wg = 0
    /\ resultTracker = 1
    /\ errs = <<>>
    /\ errMutex = 0
    /\ wpc = <<>>
    /\ calls = <<>>
    /\ ctxDoneAtCall = FALSE
    /\ blockedAtFire = 0
    /\ lateStarts = 0
    /\ limitStarts = 0
    /\ retErrs = <<>>
    /\ fns = <<>>
    /\ epc = <<>>
    /\ nrecv = 0
    /\ chClosed = FALSE
    /\ errsRead = <<>>
    /\ retNil = FALSE
    /\ retView = <<>>
    /\ outcome = <<>>

InitRemove ==
    /\ mode = "RemoveZeroValues"
    /\ results \in SeqsUpTo(ResultVals, MaxLen)
    /\ o \in {c \in Options : c.BatchSize = 0 /\ c.Limit = 0
                                /\ c.RandomDelayTimeMin = 0}
    /\ pc = "call"
    /\ retResults = <<>>
    /\ NoCall
    /\ Resolved

\* RemoveZeroValues(o.RemoveZeroValues, results)
CallRemove ==
    /\ pc = "call"
    /\ IF RemovePanics(o.RemoveZeroValues, results)
       THEN /\ pc' = "panic"
            /\ UNCHANGED retResults
       ELSE /\ retResults' = RemoveZeroValues(o.RemoveZeroValues, results)
            /\ pc' = "done"
    /\ UNCHANGED <<mode, i, results, errs, retErrs, exec, mapState>>

NextRemove == CallRemove

SpecRemove == InitRemove /\ [][NextRemove]_vars

(***************************************************************************)
(* Options resolution (src/options.go; the loop of src/map.go:100-102).    *)
(* A Func is a function from Option to Option.                             *)
(***************************************************************************)
OptionSpace == [BatchSize : (-1)..MaxBatch, Limit : 0..MaxLimit,
                RandomDelayTimeDuration : {0, 1},
                RandomDelayTimeMax : 0..MaxDelay,
                RandomDelayTimeMin : 0..MaxDelay, RemoveZeroValues : BOOLEAN]

WithBatchSize(concurrency) ==
    [c \in OptionSpace |-> [c EXCEPT !.BatchSize = concurrency]]

\* Mutant: the option flips the stored flag when asked to remove.
WithRemoveZeroValues_Toggle(remove) ==
    [c \in OptionSpace |->
        [c EXCEPT !.RemoveZeroValues = (c.RemoveZeroValues # remove)]]

WithRemoveZeroValues(remove) ==
    [c \in OptionSpace |-> [c EXCEPT !.RemoveZeroValues = remove]]

WithLimit(limit) ==
    [c \in OptionSpace |-> [c EXCEPT !.Limit = limit]]

WithRandomDelayTime(min, max, d) ==
    [c \in OptionSpace |-> [c EXCEPT !.RandomDelayTimeMax = max,
                                     !.RandomDelayTimeMin = min,
                                     !.RandomDelayTimeDuration = d]]

\* Every override a caller can build within the bounds.
Overrides ==
    {WithBatchSize(n) : n \in (-1)..MaxBatch}
        \cup {WithRemoveZeroValues(b) : b \in BOOLEAN}
        \cup {WithLimit(n) : n \in 0..MaxLimit}
        \cup {WithRandomDelayTime(d[1], d[2], d[3]) :
                  d \in (0..MaxDelay) \X (0..MaxDelay) \X {0, 1}}

\* opts ...Func holding the same override twice, from any configuration.
InitOptions ==
    /\ mode = "Options"
    /\ o \in OptionSpace
    /\ opts \in {<<f, f>> : f \in Overrides}
    /\ oTrace = <<o>>
    /\ pc = "resolve"
    /\ results = <<>>
    /\ retResults = <<>>
    /\ NoCall

\* for _, opt := range opts { o = opt(o) }
ApplyOption ==
    /\ pc = "resolve"
    /\ opts # <<>>
    /\ o' = Head(opts)[o]
    /\ opts' = Tail(opts)
    /\ oTrace' = Append(oTrace, o')
    /\ pc' = IF Tail(opts) = <<>> THEN "done" ELSE pc
    /\ UNCHANGED <<mode, items, fired, i, cur, wg, resultTracker, results,
                   errs, errMutex, wpc, calls, hist, retResults, retErrs, exec,
                   errsRead, retNil, retView, outcome>>

NextOptions == ApplyOption

SpecOptions == InitOptions /\ [][NextOptions]_vars

(***************************************************************************)
(* The channel-based Map and MapCh (src/map.go:421-528).  MapCh runs the   *)
(* dispatch loop in the calling goroutine and returns the unbuffered       *)
(* resultsCh; Map receives from it only after MapCh has returned.  A send  *)
(* on resultsCh completes only together with a receive.                    *)
(***************************************************************************)
\* The variables this variant does not have.
notCh == <<wg, resultTracker, errMutex, calls, hist, fns, epc, errsRead,
           retView, outcome, opts, oTrace>>

InitMapCh ==
    /\ mode = "MapCh"
    /\ items \in SeqsUpTo(ItemVals, MaxN)
    /\ o \in [Concurrency : 0..MaxBatch]
    /\ fired \in BOOLEAN
    /\ pc = "acq"
    /\ i = 1
    /\ cur = 0
    /\ wpc = [w \in 1..Len(items) |-> "idle"]
    /\ results = [k \in 1..Len(items) |-> Zero]
    /\ errs = <<>>
    /\ nrecv = 0
    /\ chClosed = FALSE
    /\ retResults = <<>>
    /\ retErrs = <<>>
    /\ retNil = FALSE
    /\ retView = <<>>
    /\ wg = 0
    /\ resultTracker = 1
    /\ errMutex = 0
    /\ calls = [w \in 1..Len(items) |-> 0]
    /\ ctxDoneAtCall = fired
    /\ blockedAtFire = 0
    /\ lateStarts = 0
    /\ limitStarts = 0
    /\ fns = <<>>
    /\ epc = <<>>
    /\ errsRead = <<>>
    /\ outcome = [w \in 1..Len(items) |-> <<>>]
    /\ Resolved

\* The token fires.
FireCh ==
    /\ ~fired
    /\ pc # "done"
    /\ fired' = TRUE
    /\ UNCHANGED <<mode, items, o, pc, i, cur, wpc, results, errs, nrecv,
                   chClosed, retResults, retErrs, retNil, notCh>>

\* sem.Acquire(ctx, 1) returns nil for the next element of sl.
AcquireOkCh ==
    /\ pc = "acq"
    /\ i <= N
    /\ cur < o.Concurrency
    /\ cur' = cur + 1
    /\ pc' = "go"
    /\ UNCHANGED <<mode, items, o, fired, i, wpc, results, errs, nrecv,
                   chClosed, retResults, retErrs, retNil, notCh>>

\* sem.Acquire(ctx, 1) returns an error: MapCh sends it on resultsCh, which
\* has no receiver before MapCh returns; the calling goroutine stays there.
AcquireFailCh ==
    /\ pc = "acq"
    /\ i <= N
    /\ fired
    /\ pc' = "sendErr"
    /\ UNCHANGED <<mode, items, o, fired, i, cur, wpc, results, errs, nrecv,
                   chClosed, retResults, retErrs, retNil, notCh>>

\* go func(i int, t T) {...}(i, t): the unit starts and calls f.
DispatchCh ==
    /\ pc = "go"
    /\ wpc' = [wpc EXCEPT ![i] = "inF"]
    /\ i' = i + 1
    /\ pc' = "acq"
    /\ UNCHANGED <<mode, items, o, fired, cur, results, errs, nrecv,
                   chClosed, retResults, retErrs, retNil, notCh>>

\* return resultsCh at the end of the range; Map enters its receive loop.
MapChReturn ==
    /\ pc = "acq"
    /\ i > N
    /\ pc' = "recv"
    /\ UNCHANGED <<mode, items, o, fired, i, cur, wpc, results, errs, nrecv,
                   chClosed, retResults, retErrs, retNil, notCh>>

\* result, err := f(ctx, t) returns; the unit reaches its send.
ReturnFCh(w) ==
    /\ wpc[w] = "inF"
    /\ wpc' = [wpc EXCEPT ![w] = "send"]
    /\ UNCHANGED <<mode, items, o, fired, pc, i, cur, results, errs, nrecv,
                   chClosed, retResults, retErrs, retNil, notCh>>

\* Map is in `for range sl { result := <-resultsCh ... }`.
Receiving == pc = "recv"

\* result := <-resultsCh taking the send of unit w; Map stores the outcome.
ReceiveCh(w) ==
    /\ Receiving
    /\ nrecv < N
    /\ wpc[w] = "send"
    /\ wpc' = [wpc EXCEPT ![w] = "rel"]
    /\ nrecv' = nrecv + 1
    /\ IF F(items[w]).err
       THEN /\ errs' = Append(errs, [kind |-> "failed", name |-> w])
            /\ UNCHANGED results
       ELSE /\ results' = [results EXCEPT ![w] = F(items[w]).out]
            /\ UNCHANGED errs
    /\ UNCHANGED <<mode, items, o, fired, pc, i, cur, chClosed, retResults,
                   retErrs, retNil, notCh>>

\* deferred sem.Release(1), after the send has completed.
ReleaseCh(w) ==
    /\ wpc[w] = "rel"
    /\ cur' = cur - 1
    /\ wpc' = [wpc EXCEPT ![w] = "fin"]
    /\ UNCHANGED <<mode, items, o, fired, pc, i, results, errs, nrecv,
                   chClosed, retResults, retErrs, retNil, notCh>>

\* if len(errs) > 0 { return nil, errs }; return results, nil; deferred close.
MapReturnCh ==
    /\ pc = "recv"
    /\ nrecv = N
    /\ retNil' = (Len(errs) > 0)
    /\ retResults' = IF Len(errs) > 0 THEN <<>> ELSE results
    /\ retErrs' = errs
    /\ chClosed' = TRUE
    /\ pc' = "done"
    /\ UNCHANGED <<mode, items, o, fired, i, cur, wpc, results, errs, nrecv,
                   notCh>>

\* A step of the call itself.
StepCh ==
    \/ AcquireOkCh
    \/ AcquireFailCh
    \/ DispatchCh
    \/ MapChReturn
    \/ \E w \in Workers : ReturnFCh(w)
    \/ \E w \in Workers : ReceiveCh(w)
    \/ \E w \in Workers : ReleaseCh(w)
    \/ MapReturnCh

NextMapCh == FireCh \/ StepCh

SpecMapCh == InitMapCh /\ [][NextMapCh]_vars

(***************************************************************************)
(* Vocabulary of the properties.                                           *)
(***************************************************************************)
Returned == pc = "done"
Succeeds(k) == ~F(items[k]).err
AllSucceed == \A k \in Workers : Succeeds(k)
Expected == [k \in Workers |-> F(items[k]).out]
NonZero(x) == x # Zero
FailCount == Cardinality({k \in Workers : ~Succeeds(k)})
\* Units that hold a unit of the gate: admitted and not yet released.
Admitted == {w \in Workers : wpc[w] \notin {"idle", "fin"}}
Holders == Cardinality(Admitted) + (IF pc = "go" THEN 1 ELSE 0)
Running == {w \in Workers : wpc[w] = "inF"}
\* A unit has finished once it has signalled wg.Done().
Finished(w) == wpc[w] \in {"rel", "fin"}
QuietCall == mode = "Map" /\ Returned /\ ~fired /\ o.Limit = 0 /\ ~JitterFailed

(***************************************************************************)
(* C1 (as stated): with an always-succeeding f, no limit and a token that  *)
(* never fires, Map returns a sequence of length n whose element i is      *)
(* f(items[i]).  Fails: a zero-valued f(items[i]) is stripped by default.  *)
(***************************************************************************)
C1_Original ==
    (QuietCall /\ AllSucceed) =>
        (Len(retResults) = N /\ retResults = Expected)

(***************************************************************************)
(* C1 (amended): under the same conditions Map returns no error and the    *)
(* values f(items[i]) in input order, for every width and completion       *)
(* order: all n of them when zero-value stripping is off, and the non-zero *)
(* ones (relative order kept) when it is on.                               *)
(***************************************************************************)
C1_OrderedResults ==
    (QuietCall /\ AllSucceed) =>
        /\ retErrs = <<>>
        /\ retResults = IF o.RemoveZeroValues THEN SelectSeq(Expected, NonZero)
                                               ELSE Expected

C1_Witness ==
    /\ QuietCall
    /\ items = <<Zero, 1>>
    /\ o.BatchSize = 2
    /\ ~o.RemoveZeroValues
    /\ retResults = <<Zero, 1>>

(***************************************************************************)
(* C2: in every state of a Map or MapM call of width c >= 1 at most c      *)
(* units hold the gate, and so at most c invocations of f run.             *)
(***************************************************************************)
C2_GateBound ==
    o.BatchSize >= 1 =>
        /\ Holders <= o.BatchSize
        /\ Cardinality(Running) <= o.BatchSize

C2_Witness ==
    /\ o.BatchSize = 1
    /\ pc = "acq"
    /\ ~fired
    /\ Running = {1}
    /\ i = 2

(***************************************************************************)
(* C3: Map returns only after every unit it dispatched has finished, on    *)
(* every exit path.  Fails on the two cancellation paths, which return     *)
(* without wg.Wait().                                                      *)
(***************************************************************************)
C3_ReturnsAfterUnits ==
    (mode = "Map" /\ Returned) =>
        \A w \in Workers : wpc[w] = "idle" \/ Finished(w)

(***************************************************************************)
(* C4: with Limit = k, 0 < k < n, and an always-succeeding f, Map never    *)
(* records more than k results and returns exactly k entries (stripping    *)
(* on as by default, the results being non-zero so that none is stripped). *)
(* Fails for width >= 2: the limit check and the increment of the counter  *)
(* are two steps.                                                          *)
(***************************************************************************)
C4_LimitRespected ==
    (mode = "Map" /\ o.Limit > 0 /\ o.Limit < N /\ o.BatchSize >= 1
        /\ AllSucceed /\ ~JitterFailed) =>
        /\ resultTracker - 1 <= o.Limit
        /\ (Returned /\ ~fired /\ o.RemoveZeroValues
                /\ \A k \in Workers : NonZero(Expected[k]))
               => Len(retResults) = o.Limit

(***************************************************************************)
(* C5: with Limit = 0, the unit of a failing item never reaches the write  *)
(* of its slot, which keeps the zero value; and when Map returns without   *)
(* the token having fired, the error set has one "failed to map" entry per *)
(* failing item and nothing else, and every other slot i holds             *)
(* f(items[i]) before stripping.                                           *)
(***************************************************************************)
C5_FailuresCounted ==
    (mode = "Map" /\ o.Limit = 0) =>
        /\ \A w \in Workers :
               ~Succeeds(w) => (wpc[w] \notin {"lim", "wr"} /\ results[w] = Zero)
        /\ (Returned /\ ~fired /\ ~JitterFailed) =>
               /\ Len(retErrs) = FailCount
               /\ \A e \in 1..Len(retErrs) :
                      retErrs[e] = [kind |-> "failed", name |-> FailItem]
               /\ \A k \in Workers : Succeeds(k) => results[k] = F(items[k]).out

C5_Witness ==
    /\ QuietCall
    /\ items = <<FailItem, 1>>
    /\ Len(retErrs) = 1
    /\ results = <<Zero, 1>>

(***************************************************************************)
(* C6: f is invoked at most once per element in Map and MapM; when the     *)
(* call returns with Limit = 0 and the token not fired, exactly once for   *)
(* every element, those after a failing one included.                      *)
(***************************************************************************)
C6_OncePerElement ==
    /\ \A w \in Workers : calls[w] <= 1
    /\ (Returned /\ ~fired /\ o.Limit = 0 /\ ~JitterFailed)
           => \A w \in Workers : calls[w] = 1

C6_Witness ==
    /\ mode = "MapM"
    /\ Returned /\ ~fired /\ o.Limit = 0
    /\ N = 2
    /\ items[1] = FailItem
    /\ calls[2] = 1
    /\ Len(retErrs) >= 1

(***************************************************************************)
(* C7 (as stated): if the token has fired before the call, then for every  *)
(* input the returned error set is non-empty, f is never invoked and no    *)
(* result is recorded.  Fails for the empty input: nothing is checked.     *)
(***************************************************************************)
NoSuccess ==
    /\ \A w \in Workers : calls[w] = 0
    /\ resultTracker = 1
    /\ Returned => \A k \in 1..Len(retResults) : retResults[k] = Zero

C7_Original ==
    ctxDoneAtCall => (NoSuccess /\ (Returned => Len(retErrs) > 0))

(***************************************************************************)
(* C7 (amended): if the token has fired before the call of Map or MapM, f  *)
(* is never invoked and no result is recorded, whatever the options; for a *)
(* non-empty input the error set is non-empty (here, with no jitter        *)
(* configured: exactly the one "context errored before mapping" failure    *)
(* naming the first item), for the empty input it is empty.                *)
(***************************************************************************)
C7_PreCancelled ==
    ctxDoneAtCall =>
        /\ NoSuccess
        /\ (Returned /\ ~JitterFailed) =>
               retErrs = IF N > 0 THEN <<[kind |-> "errored", name |-> NameOf(1)]>>
                                  ELSE <<>>

C7_Witness ==
    /\ ctxDoneAtCall
    /\ Returned
    /\ N = 2
    /\ Len(retErrs) = 1

(***************************************************************************)
(* C8: width 1, the token fires while the unit of item j runs f and the    *)
(* loop waits in Acquire for item j+1 (items 1..j succeed with non-zero    *)
(* results, stripping on, no limit): Map returns exactly the results of    *)
(* the items before j and exactly the "context timeout before mapping"     *)
(* failure naming item j+1.  Fails: the unit of item j may record its      *)
(* result, and release the gate, before the loop resumes.                  *)
(***************************************************************************)
C8_TimeoutScenario ==
    (mode = "Map" /\ Returned /\ o.BatchSize = 1 /\ o.Limit = 0
        /\ o.RemoveZeroValues /\ blockedAtFire > 0
        /\ \A k \in 1..(blockedAtFire - 1) : Succeeds(k) /\ NonZero(Expected[k])) =>
        /\ retResults = [k \in 1..(blockedAtFire - 2) |-> Expected[k]]
        /\ retErrs = <<[kind |-> "timeout", name |-> items[blockedAtFire]]>>

(***************************************************************************)
(* C9 (as stated): once the token has fired no unit of work is started.    *)
(* Fails: the token may fire after the pre-dispatch check has passed.      *)
(***************************************************************************)
C9_Original ==
    [][fired => \A w \in Workers : (wpc[w] = "idle" => wpc'[w] = "idle")]_vars

(***************************************************************************)
(* C9 (amended): after the token has fired Map and MapM start at most one  *)
(* further unit, the one whose pre-dispatch check had already passed; if   *)
(* the token had fired before the call they start none.                    *)
(***************************************************************************)
C9_AtMostOneLateStart ==
    /\ lateStarts <= 1
    /\ ctxDoneAtCall => lateStarts = 0

C9_Witness ==
    /\ lateStarts = 1
    /\ Returned

(***************************************************************************)
(* C10: Execute returns only after every operation has returned and its    *)
(* outcome has been taken; then len(results) + len(errors) = len(fns), the *)
(* results are the multiset of the outputs of the operations that returned *)
(* no error, the errors the multiset of the errors returned, and an output *)
(* that came with an error is dropped.                                     *)
(***************************************************************************)
CountIn(s, v) == Cardinality({k \in 1..Len(s) : s[k] = v})

C10_ExecuteCollects ==
    (mode = "Execute" /\ Returned) =>
        /\ \A g \in Ops : epc[g] = "fin"
        /\ Len(retResults) + Len(retErrs) = Len(fns)
        /\ \A v \in FnOuts : CountIn(retResults, v) =
               Cardinality({g \in Ops : fns[g].err = Nil /\ fns[g].out = v})
        /\ \A e \in FnErrs \ {Nil} : CountIn(retErrs, e) =
               Cardinality({g \in Ops : fns[g].err = e})

C10_Witness ==
    /\ mode = "Execute"
    /\ Returned
    /\ fns = <<[out |-> 3, err |-> "custom error"], [out |-> 1, err |-> Nil]>>
    /\ retResults = <<1>>
    /\ retErrs = <<"custom error">>

(***************************************************************************)
(* C11: every append to the error collection, by a worker or by the        *)
(* dispatching loop, is made under the error mutex, so that no append of   *)
(* the loop overlaps the critical section of a worker and every failure a  *)
(* worker has appended is still in the collection.  Fails: the loop        *)
(* appends its cancellation failure without the mutex.                     *)
(***************************************************************************)
LoopAppending == pc \in {"appc", "appt"}
FailuresPublished ==
    Cardinality({w \in Workers : outcome[w] # <<>> /\ outcome[w][1] = "failure"})

FailuresKept ==
    Cardinality({k \in 1..Len(errs) : errs[k].kind \in {"failed", "index"}})

C11_ErrsUnderMutex ==
    /\ LoopAppending => \A w \in Workers : wpc[w] # "csE"
    /\ FailuresKept = FailuresPublished

(***************************************************************************)
(* C12: a width n <= 0 is rejected or clamped to 1, so a Map call over a   *)
(* non-empty input with such a width is never left unable to move while    *)
(* the token has not fired: it has returned or one of its goroutines can   *)
(* take a step.  Fails: Acquire on a gate of size n <= 0 waits for the     *)
(* token alone.                                                            *)
(***************************************************************************)
C12_WidthClamped ==
    (mode = "Map" /\ o.BatchSize <= 0 /\ N > 0 /\ ~fired) =>
        (Returned \/ ENABLED CallStep)

(***************************************************************************)
(* C13: in Map and MapM the weight held in the gate is always exactly the  *)
(* number of units acquired for and not yet released (a unit that has      *)
(* finished holds none, whichever way it left: success, failure, result    *)
(* dropped by the limit), it is never negative, and once every dispatched  *)
(* unit has finished the gate is back at full capacity.                    *)
(***************************************************************************)
AllUnitsOver == pc # "go" /\ \A w \in Workers : wpc[w] \in {"idle", "fin"}

C13_ReleasedOncePerAcquire ==
    /\ cur = Holders
    /\ cur >= 0
    /\ AllUnitsOver => cur = 0

C13_Witness ==
    /\ N = 2
    /\ o.BatchSize = 2
    /\ AllUnitsOver
    /\ \E w \in Workers : wpc[w] = "fin" /\ outcome[w] = <<>>
    /\ \E w \in Workers : wpc[w] = "fin" /\ outcome[w] = <<"result">>
    /\ cur = 0

(***************************************************************************)
(* C14: MapM with Limit = k > 0 over more than k entries, with an          *)
(* always-succeeding f whose results are non-zero and a token that never   *)
(* fires, returns exactly k results and no error, for every width >= 1.    *)
(* Fails for width >= 2: a unit checks the limit before it takes the       *)
(* mutex, so two units pass the check before either counts its result.     *)
(***************************************************************************)
C14_MapMLimitExact ==
    (mode = "MapM" /\ Returned /\ ~fired /\ o.Limit > 0 /\ N > o.Limit
        /\ o.BatchSize >= 1 /\ AllSucceed
        /\ \A k \in Workers : NonZero(Expected[k])) =>
        /\ Len(retResults) = o.Limit
        /\ retErrs = <<>>

(***************************************************************************)
(* C15: MapM with Limit = 0, a token that never fires and an               *)
(* always-succeeding f returns a nil error set and one result per key,     *)
(* the multiset of the f(key, item), for every width >= 1 (with zero-value *)
(* stripping on, less the zero-valued ones; with non-zero results all m).  *)
(***************************************************************************)
Occurrences(v) == Cardinality({k \in Workers : Expected[k] = v})

C15_MapMCollectsAll ==
    (mode = "MapM" /\ Returned /\ ~fired /\ o.Limit = 0 /\ AllSucceed) =>
        /\ retErrs = <<>>
        /\ \A v \in ItemVals :
               CountIn(retResults, v) =
                   IF v = Zero /\ o.RemoveZeroValues THEN 0 ELSE Occurrences(v)
        /\ (\A k \in Workers : NonZero(Expected[k])) => Len(retResults) = N

C15_Witness ==
    /\ mode = "MapM" /\ Returned /\ ~fired /\ o.Limit = 0
    /\ o.BatchSize = 2
    /\ o.RemoveZeroValues
    /\ items = <<1, 1>>
    /\ retResults = <<1, 1>>
    /\ retErrs = <<>>

(***************************************************************************)
(* C16: on every return path of Map the caller receives a non-nil result   *)
(* sequence.  Fails: when the preparation of the jitter delay fails Map    *)
(* returns nil with the error.                                             *)
(***************************************************************************)
C16_ResultsNeverNil ==
    (mode = "Map" /\ Returned) => ~retNil

(***************************************************************************)
(* C17: RemoveZeroValues(true, s) returns the subsequence of the non-zero  *)
(* entries of s in their order, for every s; RemoveZeroValues(false, s)    *)
(* returns s.  Fails for a sequence of an interface type that holds a nil  *)
(* entry: the call panics instead of dropping the entry.                   *)
(***************************************************************************)
NotDefault(x) == x # Zero /\ x # NilValue

C17_PureFilter ==
    (mode = "RemoveZeroValues" /\ pc # "call") =>
        /\ Returned
        /\ retResults = IF o.RemoveZeroValues THEN SelectSeq(results, NotDefault)
                                              ELSE results

(***************************************************************************)
(* C18 (as stated): every unit dispatched by Map or MapM has produced      *)
(* exactly one outcome by the time it finishes, for every Limit.  Fails    *)
(* with Limit > 0: a unit that finds the limit reached records nothing.    *)
(***************************************************************************)
Leaving(w) == wpc[w] \in {"dfr", "rel", "fin"}

C18_Original ==
    \A w \in Workers : Leaving(w) => Len(outcome[w]) = 1

(***************************************************************************)
(* C18 (amended): a unit never produces both outcomes nor one twice.  A    *)
(* unit whose f fails appends exactly one failure; a unit whose f succeeds *)
(* records its result and increments the count, except that with           *)
(* Limit > 0 a unit that finds the limit already reached records nothing.  *)
(* With Limit = 0 every unit produces exactly one outcome.                 *)
(***************************************************************************)
Recorded == {w \in Workers : outcome[w] = <<"result">>}

C18_AtMostOneOutcome ==
    /\ \A w \in Workers :
           /\ outcome[w] \in {<<>>, <<"result">>, <<"failure">>}
           /\ Leaving(w) =>
                  /\ ~Succeeds(w) => outcome[w] = <<"failure">>
                  /\ Succeeds(w) =>
                         \/ outcome[w] = <<"result">>
                         \/ outcome[w] = <<>> /\ LimitReached
           /\ ~Leaving(w) => outcome[w] = <<>>
    /\ resultTracker - 1 = Cardinality(Recorded)

C18_Witness ==
    /\ mode = "MapM"
    /\ o.Limit = 1
    /\ items = <<1, 1>>
    /\ wpc = <<"fin", "fin">>
    /\ outcome = <<<<>>, <<"result">>>>

(***************************************************************************)
(* C19: options resolution is idempotent: from any configuration, the      *)
(* configuration after applying an override (WithBatchSize, WithLimit,     *)
(* WithRemoveZeroValues, WithRandomDelayTime) twice with the same value is *)
(* the configuration after applying it once.                               *)
(***************************************************************************)
C19_Idempotent ==
    (mode = "Options" /\ Returned) => oTrace[3] = oTrace[2]

C19_Witness ==
    /\ mode = "Options" /\ Returned
    /\ oTrace[1].RandomDelayTimeMin = 0 /\ oTrace[1].RandomDelayTimeMax = 0
    /\ oTrace[2].RandomDelayTimeMin = 1 /\ oTrace[2].RandomDelayTimeMax = 1
    /\ o = oTrace[2]

(***************************************************************************)
(* C20: in the channel-based Map/MapCh, with width c >= 1, a token that    *)
(* never fires and an always-succeeding f, the call is never left unable   *)
(* to move before it has returned, and it returns after exactly len(sl)    *)
(* outcomes with result i equal to f(sl[i]).  Fails for len(sl) > c: the   *)
(* units wait in their send holding the gate, the loop waits in Acquire,   *)
(* and Map has not begun to receive.                                       *)
(***************************************************************************)
C20_ChannelMapReturns ==
    (mode = "MapCh" /\ o.Concurrency >= 1 /\ ~fired /\ AllSucceed) =>
        /\ Returned \/ ENABLED StepCh
        /\ Returned => (nrecv = N /\ ~retNil /\ retResults = Expected)

MayStillWrite(w) == wpc[w] \in {"inF", "lim", "wr"}
ReadingResults == pc = "retc" \/ (pc = "wait" /\ wg = 0)

C22_SlotsNotShared ==
    mode = "Map" =>
        /\ \A w \in Workers : Len(outcome[w]) <= 1
        /\ \A w, v \in Workers : w # v => SlotOf(w) # SlotOf(v)
        /\ ReadingResults => \A w \in Workers : ~MayStillWrite(w)

(***************************************************************************)
(* C23: in MapM the result sequence is read or compacted by the returning  *)
(* thread only under the mutex or when no unit is left that can append to  *)
(* it.  Fails: on the cancellation paths it is compacted and handed back,  *)
(* without the mutex, while units are still running.                       *)
(***************************************************************************)
MayStillAppend(w) == wpc[w] \in {"inF", "lim", "lockR", "csR"}

C23_ResultsUnderMutex ==
    (mode = "MapM" /\ ReadingResults) =>
        \A w \in Workers : ~MayStillAppend(w)

(***************************************************************************)
(* C24: the index guard of Map is unreachable: the result slice keeps the  *)
(* length of the input, so for every unit i < len(results) holds and no    *)
(* "result index out of range" failure is ever recorded.                   *)
(***************************************************************************)
C24_GuardUnreachable ==
    mode = "Map" =>
        /\ Len(results) = N
        /\ \A w \in Workers : ~IndexOutOfRange(w)
        /\ \A k \in 1..Len(errs) : errs[k].kind # "index"

C24_Witness ==
    /\ mode = "Map"
    /\ N = 2
    /\ wpc[2] = "wr"
    /\ wpc[1] = "fin"
    /\ Len(results) = 2

(***************************************************************************)
(* C25: Execute applies no concurrency bound: while operations remain to   *)
(* be launched the next launch is always possible, whatever the other      *)
(* operations have done; all of them have been launched before Execute     *)
(* waits for the first outcome; and they can all be in flight at once.     *)
(***************************************************************************)
C25_NoConcurrencyBound ==
    mode = "Execute" =>
        /\ pc = "launch" => ENABLED Launch
        /\ pc # "launch" => \A g \in Ops : epc[g] # "idle"
        /\ nrecv > 0 => \A g \in Ops : epc[g] # "idle"

C25_Witness ==
    /\ mode = "Execute"
    /\ Len(fns) = 2
    /\ pc = "recv"
    /\ nrecv = 0
    /\ \A g \in Ops : epc[g] = "run"

(***************************************************************************)
(* C27: in Execute resultsCh is closed only after exactly len(fns)         *)
(* outcomes have been received: when it is closed every operation's        *)
(* goroutine has completed its send, so none sends on the closed channel   *)
(* and none is left waiting in its send.                                   *)
(***************************************************************************)
C27_ClosedAfterAllReceived ==
    (mode = "Execute" /\ chClosed) =>
        /\ nrecv = Len(fns)
        /\ \A g \in Ops : epc[g] = "fin"

C27_Witness ==
    /\ mode = "Execute"
    /\ chClosed
    /\ Len(fns) = 2
    /\ nrecv = 2
    /\ fns[1].err # Nil
    /\ fns[2].err # Nil

(***************************************************************************)
(* C26: after Map has returned, no element within the length of the        *)
(* returned sequence changes, on every exit path.  Fails on the two        *)
(* cancellation paths: a unit still running writes its slot of the         *)
(* backing array the returned sequence shares.                             *)
(***************************************************************************)
C26_ReturnedStable ==
    (mode = "Map" /\ Returned) => retView = retResults

(***************************************************************************)
(* C28: under weak fairness, with a width >= 1, a token that never fires   *)
(* and an f that always returns, every Map call eventually returns, for    *)
(* every input length, every Limit and every mix of succeeding and         *)
(* failing items.                                                          *)
(***************************************************************************)
C28_EventuallyReturns ==
    (mode = "Map" /\ o.BatchSize >= 1) => <>Returned

C28_Witness ==
    /\ mode = "Map"
    /\ Returned /\ ~fired
    /\ o.BatchSize = 1
    /\ o.Limit = 1
    /\ items = <<FailItem, 1>>
    /\ Len(retErrs) = 1

TypeOK ==
    /\ cur \in 0..MaxBatch
    /\ wg \in 0..MaxN
    /\ errMutex \in 0..MaxN
    /\ resultTracker \in 1..(MaxN + 1)
    /\ i \in 1..(MaxN + 1)
====
